---- MODULE Spec2Model ----
(***************************************************************************)
(* Model of the Open Images segmentation tooling:                          *)
(*   utils/convert_to_coco.py       - builds the COCO annotation file      *)
(*   maskrcnn/tools/make_predictions.py - writes the prediction CSV        *)
(*                                                                         *)
(* Five specifications share the variables below:                          *)
(*   SpecConvert  the __main__ of convert_to_coco.py, row by row           *)
(*   SpecRle      binary_mask_to_rle on every small mask                   *)
(*   SpecResize   the prediction loop over images of many sizes            *)
(*   SpecTopK     the prediction loop over many score vectors              *)
(*   SpecPredict  the prediction loop with unknown labels and odd sizes    *)
(***************************************************************************)
EXTENDS Integers, Sequences, FiniteSets, TLC

VARIABLES
  pc,              \* position of the running script
  counter,         \* the local `counter` of the function / loop that is running
  \* ---- convert_to_coco.py
  image_rows,      \* ImageIDs of the image-label rows read so far
  images,          \* get_images_section: the images list
  im_id_dict,      \* get_images_section: external id -> integer id
  seen_images,     \* get_images_section: keys of seen_images
  mask_rows,       \* mask-metadata rows turned into a record so far
  annotations,     \* get_annotations_section: the annotations list
  binary_mask,     \* the ndarray handed to binary_mask_to_rle
  rle,             \* what binary_mask_to_rle returned
  \* ---- make_predictions.py
  f_out,           \* what each write put into the output file, in order: the header
                   \* line, "<id>,<width>,<height>," of an image (prefix), the
                   \* prediction string of an image and its newline (predictions)
  shape,           \* <<orig_height, orig_width>> of the current image
  image_size,      \* PIL size <<width, height>> after F.resize
  padding,         \* <<left_pad, top_pad, right_pad, bottom_pad>>
  scores,          \* output.get_field('scores')
  labels,          \* output.get_field('labels')
  top_indexes,     \* indices still to visit by the loop of line 161
  all_predictions, \* triples collected for the current image
  sigmoid_mask     \* shapes of the mask being re-projected

convVars == <<image_rows, images, im_id_dict, seen_images, mask_rows, annotations>>
rleVars  == <<binary_mask, rle>>
predVars == <<f_out, shape, image_size, padding, scores, labels, top_indexes,
              all_predictions, sigmoid_mask>>
vars     == <<pc, counter, convVars, rleVars, predVars>>

\* None stands for Python's None / a value not yet assigned.
None == <<>>

\* sigmoid_mask before any mask was re-projected: the shapes after lines 166, 168, 173.
NoMask == [upsampled |-> None, cropped |-> None, resized |-> None]

RECURSIVE SumSeq(_)
SumSeq(s) == IF s = <<>> THEN 0 ELSE Head(s) + SumSeq(Tail(s))

Min(a, b) == IF a < b THEN a ELSE b

(***************************************************************************)
(* Bounds of the model.                                                    *)
(***************************************************************************)
MaxImageRows == 5   \* image-label rows read
MaxMaskRows  == 2   \* mask-metadata rows read
MaxH         == 2   \* mask height in SpecRle
MaxW         == 3   \* mask width in SpecRle
MaxImages    == 2   \* images the data loader yields in one run
MaxDim       == 30  \* small image sides in SpecResize
MaxScale     == 3   \* large image sides around 1024 * 1..MaxScale in SpecResize
MaxInstances == 6   \* instances per image in SpecTopK
MaxDetections == 2  \* instances per image in SpecPredict

(***************************************************************************)
(* numpy arrays: [shape |-> <<h, w>> or <<h, w, 1>>, px |-> rows of pixels] *)
(***************************************************************************)
PixelValues == {0, 1, 255}   \* uint8 values a mask PNG read by cv2.imread(.., 0) holds

Height(m) == m.shape[1]
Width(m)  == m.shape[2]

NdArray(rows) == [shape |-> <<Len(rows), Len(rows[1])>>, px |-> rows]

Grids(maxH, maxW) ==
  UNION { { NdArray(rows) : rows \in [1..h -> [1..w -> PixelValues]] }
          : <<h, w>> \in (1..maxH) \X (1..maxW) }

\* mask.reshape(mask.shape[0], mask.shape[1], 1).astype(np.uint8), asfortranarray
\* (convert_to_coco.py 104-106): the values stay, the shape gets a third axis.
ReshapeMask(m) == [shape |-> <<m.shape[1], m.shape[2], 1>>, px |-> m.px]

\* binary_mask.ravel(order='F'): first axis fastest, i.e. column after column.
RavelF(m) ==
  LET h == Height(m)
      w == Width(m)
  IN  [k \in 1..(h * w) |-> m.px[((k - 1) % h) + 1][((k - 1) \div h) + 1]]

\* Length of the run of equal values that starts s.
RECURSIVE RunLen(_)
RunLen(s) ==
  IF Len(s) = 1 \/ s[2] # s[1] THEN 1 ELSE 1 + RunLen(Tail(s))

\* itertools.groupby over a flat sequence: <<value, length>> per run of equal values.
RECURSIVE groupby(_)
groupby(s) ==
  IF s = <<>> THEN <<>>
  ELSE LET n == RunLen(s)
       IN  <<[value |-> s[1], len |-> n]>> \o groupby(SubSeq(s, n + 1, Len(s)))

\* binary_mask_to_rle (convert_to_coco.py 76-84)
binary_mask_to_rle(m) ==
  LET groups == groupby(RavelF(m))
      lead   == IF groups # <<>> /\ groups[1].value = 1 THEN <<0>> ELSE <<>>
  IN  [counts |-> lead \o [i \in 1..Len(groups) |-> groups[i].len],
       size   |-> m.shape]

(***************************************************************************)
(* SpecRle: a mask file is read, reshaped as get_annotations_section does  *)
(* and encoded.                                                            *)
(***************************************************************************)
IdleConv ==
  /\ image_rows = <<>> /\ images = <<>> /\ im_id_dict = <<>>
  /\ seen_images = {} /\ mask_rows = <<>> /\ annotations = <<>>

IdlePred ==
  /\ f_out = <<>> /\ shape = None /\ image_size = None /\ padding = None
  /\ scores = <<>> /\ labels = <<>> /\ top_indexes = <<>>
  /\ all_predictions = <<>> /\ sigmoid_mask = NoMask

InitRle ==
  /\ pc = "imread"
  /\ counter = 1
  /\ binary_mask \in Grids(MaxH, MaxW)
  /\ rle = None
  /\ IdleConv /\ IdlePred

\* convert_to_coco.py 104-106
ConvertMask ==
  /\ pc = "imread"
  /\ binary_mask' = ReshapeMask(binary_mask)
  /\ pc' = "reshaped"
  /\ UNCHANGED <<counter, rle, convVars, predVars>>

\* convert_to_coco.py 107
EncodeMask ==
  /\ pc = "reshaped"
  /\ rle' = binary_mask_to_rle(binary_mask)
  /\ pc' = "encoded"
  /\ UNCHANGED <<counter, binary_mask, convVars, predVars>>

NextRle == ConvertMask \/ EncodeMask

SpecRle == InitRle /\ [][NextRle]_vars

(***************************************************************************)
(* Reading a run-length encoding back (the decoder of the COCO convention: *)
(* column-major runs, background first, alternating).                      *)
(***************************************************************************)
PrefixSum(c, j) == SumSeq(SubSeq(c, 1, j))

\* Pixels (column-major positions) covered by run j of counts c.
RunPixels(c, j) == (PrefixSum(c, j - 1) + 1)..PrefixSum(c, j)

IsForeground(v) == v # 0

Foreground(m) ==
  [r \in 1..Height(m) |-> [col \in 1..Width(m) |-> IsForeground(m.px[r][col])]]

Decode(c, h, w) ==
  LET fg(k) == \E j \in 1..Len(c) : j % 2 = 0 /\ k \in RunPixels(c, j)
  IN  [r \in 1..h |-> [col \in 1..w |-> fg((col - 1) * h + r)]]

\* C2: decoding the counts of binary_mask_to_rle, background first, gives back the
\* foreground/background pattern of the mask (non-zero = foreground).
RleRoundTrip ==
  pc = "encoded" =>
    Decode(rle.counts, Height(binary_mask), Width(binary_mask)) = Foreground(binary_mask)

\* C3: counts starts with a background run (a 0 when the first pixel is foreground):
\* every pixel of an even-index run (0-based) is background, of an odd-index run
\* foreground.
RleParity ==
  pc = "encoded" =>
    LET flat == RavelF(binary_mask)
        c    == rle.counts
    IN  /\ (IsForeground(flat[1]) => c[1] = 0)
        /\ \A j \in 1..Len(c) : \A k \in RunPixels(c, j) :
             IsForeground(flat[k]) <=> ((j - 1) % 2 = 1)

(***************************************************************************)
(* SpecConvert: __main__ of convert_to_coco.py.  The source files are read *)
(* one row per step; the rows are the inputs.                              *)
(***************************************************************************)
ImageIds == {"a", "b", "c"}

\* cv2.imread(<im_id>.jpg).shape of the sample images (convert_to_coco.py 23-25)
ImageShape(im_id) ==
  CASE im_id = "a" -> [height |-> 2, width |-> 3]
    [] im_id = "b" -> [height |-> 3, width |-> 3]
    [] OTHER       -> [height |-> 1, width |-> 4]

\* dict[key] = value
DictSet(d, k, v) == [x \in (DOMAIN d) \cup {k} |-> IF x = k THEN v ELSE d[x]]

\* The category file, in line order; get_categories_section (42-61) numbers the
\* lines from 1.
Categories == <<"/m/01">>

get_categories_section ==
  [class_id \in {Categories[i] : i \in 1..Len(Categories)} |->
     CHOOSE i \in 1..Len(Categories) : Categories[i] = class_id]

\* round(float(x_min), 2); x_min in millionths, the result in hundredths.
Round2(x_min) == (x_min + 5000) \div 10000

BboxKey(image_id, label_name, x_min) == <<image_id, label_name, Round2(x_min)>>

\* The bounding-box file: one box per image for the one segmentable class.
BboxRows ==
  { [image_id |-> i, label_name |-> "/m/01", x_min |-> 123456,
     is_group_of |-> IF i = "c" THEN 1 ELSE 0] : i \in ImageIds }

\* get_bbox_dict (convert_to_coco.py 63-74)
get_bbox_dict ==
  [key \in { BboxKey(r.image_id, r.label_name, r.x_min) : r \in BboxRows } |->
     (CHOOSE r \in BboxRows : BboxKey(r.image_id, r.label_name, r.x_min) = key).is_group_of]

\* The mask PNGs on disk, as cv2.imread(path, 0) returns them.
MaskFiles ==
  [p \in {"a0.png", "b1.png", "c2.png"} |->
     CASE p = "a0.png" -> NdArray(<< <<0>>, <<0>> >>)
       [] p = "b1.png" -> NdArray(<< <<255, 0>> >>)
       [] OTHER        -> NdArray(<< <<0, 255>>, <<255, 255>> >>)]

MaskPaths == (DOMAIN MaskFiles) \cup {"zz.png"}   \* zz.png is not on disk

LabelNames == {"/m/01", "/m/09"}                   \* /m/09 is not in the category file

XMins == {123400, 456700}                          \* BoxXMin of the mask file

MaskRowValues ==
  [mask_path : MaskPaths, image_id : ImageIds, label_name : LabelNames, x_min : XMins]

\* coco_mask.toBbox(coco_mask.encode(mask))[0] (convert_to_coco.py 109-110):
\* <<x, y, width, height>> of the foreground extent, all 0 without foreground.
toBbox(m) ==
  LET cols == { c \in 1..Width(m)  : \E r \in 1..Height(m) : IsForeground(m.px[r][c]) }
      rows == { r \in 1..Height(m) : \E c \in 1..Width(m)  : IsForeground(m.px[r][c]) }
      lo(S) == CHOOSE x \in S : \A y \in S : x <= y
      hi(S) == CHOOSE x \in S : \A y \in S : x >= y
  IN  IF cols = {} THEN <<0, 0, 0, 0>>
      ELSE <<lo(cols) - 1, lo(rows) - 1, hi(cols) - lo(cols) + 1, hi(rows) - lo(rows) + 1>>

\* The record of one mask row (convert_to_coco.py 100-132).
AnnotationRecord(row, id, id_dict) ==
  LET mask   == ReshapeMask(MaskFiles[row.mask_path])
      counts == binary_mask_to_rle(mask)
      bbox   == toBbox(mask)
  IN  [segmentation |-> [counts |-> counts.counts, size |-> counts.size],
       area |-> bbox[3] * bbox[4],
       iscrowd |-> get_bbox_dict[BboxKey(row.image_id, row.label_name, row.x_min)],
       image_id |-> id_dict[row.image_id],
       bbox |-> bbox,
       category_id |-> get_categories_section[row.label_name],
       original_category_id |-> row.label_name,
       id |-> id]

\* A variant that leaves out the records of empty masks.
AppendAnnotationSkipEmpty(anns, rec) ==
  IF rec.area = 0 THEN anns ELSE Append(anns, rec)

\* annotations.append(...) (convert_to_coco.py 118-132)
AppendAnnotation(anns, rec) == Append(anns, rec)

\* Whether a lookup of the row raises: imread gave None (104), the label is not in
\* category_dict (101), the join key is not in bbox_group_dict (116), the image id
\* is not in im_id_dict (126).
RowRaises(row, id_dict) ==
  \/ row.mask_path \notin DOMAIN MaskFiles
  \/ row.label_name \notin DOMAIN get_categories_section
  \/ BboxKey(row.image_id, row.label_name, row.x_min) \notin DOMAIN get_bbox_dict
  \/ row.image_id \notin DOMAIN id_dict

InitConvert ==
  /\ pc = "images"
  /\ counter = 1
  /\ image_rows = <<>> /\ images = <<>> /\ im_id_dict = <<>> /\ seen_images = {}
  /\ mask_rows = <<>> /\ annotations = <<>>
  /\ binary_mask = None /\ rle = None
  /\ IdlePred

\* One pass of the loop of get_images_section (convert_to_coco.py 19-37).
ReadImageRow ==
  /\ pc = "images"
  /\ Len(image_rows) < MaxImageRows
  /\ \E im_id \in ImageIds :
       /\ images' = IF im_id \notin seen_images
                      THEN Append(images, [file_name |-> im_id,
                                           height |-> ImageShape(im_id).height,
                                           width |-> ImageShape(im_id).width,
                                           id |-> counter])
                      ELSE images
       /\ seen_images' = seen_images \cup {im_id}
       /\ im_id_dict' = DictSet(im_id_dict, im_id, counter)
       /\ image_rows' = Append(image_rows, im_id)
  /\ counter' = counter + 1
  /\ UNCHANGED <<pc, mask_rows, annotations, rleVars, predVars>>

\* End of the image-label file: get_images_section returns (39-40), the categories
\* are read (160) and get_annotations_section starts (88-92).
ImagesReturn ==
  /\ pc = "images"
  /\ pc' = "annotations"
  /\ counter' = 1
  /\ annotations' = <<>>
  /\ UNCHANGED <<image_rows, images, im_id_dict, seen_images, mask_rows, rleVars, predVars>>

\* One pass of the loop of get_annotations_section (convert_to_coco.py 95-133).
\* A failed lookup raises and ends the script; the row then leaves no record.
ReadMaskRow ==
  /\ pc = "annotations"
  /\ Len(mask_rows) < MaxMaskRows
  /\ \E row \in MaskRowValues :
       IF RowRaises(row, im_id_dict)
         THEN /\ pc' = "failed"
              /\ UNCHANGED <<counter, mask_rows, annotations>>
         ELSE /\ annotations' =
                   AppendAnnotation(annotations, AnnotationRecord(row, counter, im_id_dict))
              /\ counter' = counter + 1
              /\ mask_rows' = Append(mask_rows, row)
              /\ pc' = pc
  /\ UNCHANGED <<image_rows, images, im_id_dict, seen_images, rleVars, predVars>>

\* End of the mask file: the annotations are returned and the dataset is dumped
\* (convert_to_coco.py 135-136, 162-167).
AnnotationsReturn ==
  /\ pc = "annotations"
  /\ pc' = "done"
  /\ UNCHANGED <<counter, convVars, rleVars, predVars>>

NextConvert == ReadImageRow \/ ImagesReturn \/ ReadMaskRow \/ AnnotationsReturn

SpecConvert == InitConvert /\ [][NextConvert]_vars

(***************************************************************************)
(* Claims about convert_to_coco.py                                         *)
(***************************************************************************)
\* The distinct elements of a sequence, in first-seen order.
RECURSIVE FirstSeen(_, _)
FirstSeen(s, seen) ==
  IF s = <<>> THEN <<>>
  ELSE IF Head(s) \in seen THEN FirstSeen(Tail(s), seen)
       ELSE <<Head(s)>> \o FirstSeen(Tail(s), seen \cup {Head(s)})

ImagesReturned == pc \in {"annotations", "done", "failed"}

\* C1: get_images_section returns one entry per distinct external image id, in
\* first-seen order, with internal ids 1, 2, 3, ... without gaps.
ImagesSequentialIds ==
  ImagesReturned =>
    LET distinct == FirstSeen(image_rows, {})
    IN  /\ Len(images) = Len(distinct)
        /\ \A i \in 1..Len(images) :
             images[i].file_name = distinct[i] /\ images[i].id = i

\* The bbox/area primitive reports the mask of a row as empty.
IsEmptyMask(row) == toBbox(ReshapeMask(MaskFiles[row.mask_path]))[3] = 0

\* annotations holds, in order and with ids 1, 2, ..., the records of rows.
RecordsOf(rows) ==
  /\ Len(annotations) = Len(rows)
  /\ \A i \in 1..Len(rows) :
       /\ annotations[i].id = i
       /\ annotations[i].original_category_id = rows[i].label_name
       /\ annotations[i].bbox = toBbox(ReshapeMask(MaskFiles[rows[i].mask_path]))
       /\ SumSeq(annotations[i].segmentation.counts)
            = Height(MaskFiles[rows[i].mask_path]) * Width(MaskFiles[rows[i].mask_path])

\* C7 as claimed: one record per row in input order, ids from 1, and a row whose
\* mask is reported empty is skipped.
AnnotationsSkipEmpty ==
  pc = "done" =>
    RecordsOf(SelectSeq(mask_rows, LAMBDA row : ~IsEmptyMask(row)))

\* C7 as the code has it: one record per row in input order, ids from 1, the rows
\* with an empty mask included (bbox <<0,0,0,0>>, area 0): no row is skipped.
AnnotationsOnePerRow ==
  pc = "done" =>
    /\ RecordsOf(mask_rows)
    /\ \A i \in 1..Len(mask_rows) :
         IsEmptyMask(mask_rows[i]) =>
           annotations[i].area = 0 /\ annotations[i].bbox = <<0, 0, 0, 0>>

\* Two rows were read, the first with an empty mask, and both have their record.
AnnotationsOnePerRowWitness ==
  /\ pc = "done"
  /\ Len(mask_rows) = 2
  /\ IsEmptyMask(mask_rows[1]) /\ ~IsEmptyMask(mask_rows[2])
  /\ Len(annotations) = 2
  /\ annotations[1].area = 0 /\ annotations[2].id = 2

\* C8: the segmentation of every record has size exactly <<height, width>> of the
\* mask, and counts are run lengths over that height x width grid.
SegmentationSizeIsPair ==
  \A i \in 1..Len(annotations) :
    LET mask == MaskFiles[mask_rows[i].mask_path]
        seg  == annotations[i].segmentation
    IN  /\ seg.size = <<Height(mask), Width(mask)>>
        /\ SumSeq(seg.counts) = Height(mask) * Width(mask)

\* C9: the image_id of every annotation record is the id of the images entry
\* registered for the row's external image id.
ImageIdsReferToImages ==
  \A i \in 1..Len(annotations) :
    \E j \in 1..Len(images) :
      /\ images[j].file_name = mask_rows[i].image_id
      /\ images[j].id = annotations[i].image_id

(***************************************************************************)
(* make_predictions.py                                                     *)
(***************************************************************************)
TargetSize     == 1024   \* the side of the canvas
TopK           == 5      \* instances kept per image
ScoreThreshold == 70     \* 0.7; scores are in hundredths

\* int(round(a / b)) for positive integers: Python 3 rounds halves to even.
RoundDiv(a, b) ==
  LET q == a \div b
      r == a % b
  IN  IF 2 * r < b THEN q
      ELSE IF 2 * r > b THEN q + 1
      ELSE IF q % 2 = 0 THEN q ELSE q + 1

\* Resize.__call__, lines 25-31: the PIL size <<width, height>> F.resize is asked for.
ResizedSize(size) ==
  LET w == size[1]
      h == size[2]
  IN  IF w < h THEN <<RoundDiv(w * TargetSize, h), TargetSize>>
               ELSE <<TargetSize, RoundDiv(h * TargetSize, w)>>

\* A variant that pads both sides alike.
ResizePaddingEqualSides(isz) ==
  LET top_pad  == (TargetSize - isz[2]) \div 2
      left_pad == (TargetSize - isz[1]) \div 2
  IN  <<left_pad, top_pad, left_pad, top_pad>>

\* Resize.__call__, lines 33-37: <<left_pad, top_pad, right_pad, bottom_pad>>.
ResizePadding(isz) ==
  LET top_pad    == (TargetSize - isz[2]) \div 2
      bottom_pad == TargetSize - isz[2] - top_pad
      left_pad   == (TargetSize - isz[1]) \div 2
      right_pad  == TargetSize - isz[1] - left_pad
  IN  <<left_pad, top_pad, right_pad, bottom_pad>>

\* get_categories (84-94): 1-based line number -> class id.
get_categories == [i \in 1..Len(Categories) |-> Categories[i]]

\* -sorted_scores
Negated(a) == [i \in 1..Len(a) |-> 0 - a[i]]

\* np.argsort(a) with the default kind: the indices in ascending order of a.  The
\* default sort is not stable, so equal values may come out in any order: the set
\* of all the orders it may return.
RECURSIVE AscendingOrders(_, _)
AscendingOrders(a, S) ==
  IF S = {} THEN {<<>>}
  ELSE UNION { { <<i>> \o rest : rest \in AscendingOrders(a, S \ {i}) }
               : i \in { j \in S : \A k \in S : a[j] <= a[k] } }

argsort(a) == AscendingOrders(a, 1..Len(a))

\* A variant that keeps one instance fewer.
TopIndexesOneShort(order, n) == SubSeq(order, 1, Min(TopK - 1, n))

\* lines 158-159: top_indexes[:min(5, len(sorted_scores))]
TopIndexes(order, n) == SubSeq(order, 1, Min(TopK, n))

\* line 162: scores[i].item() > 0.7
PassesThreshold(score) == score > ScoreThreshold

\* numpy slice a[lo:hi] of an axis of length n >= hi: its length.
SliceLen(lo, hi) == IF hi > lo THEN hi - lo ELSE 0

\* line 168: shape <<rows, cols>> of sigmoid_mask[top:1024-bottom, left:1024-right]
CropShape(pad) ==
  <<SliceLen(pad[2], TargetSize - pad[4]), SliceLen(pad[1], TargetSize - pad[3])>>

\* cv2.resize(src, (width, height)).shape for a single-channel src
Cv2ResizeShape(dsize) == <<dsize[2], dsize[1]>>

IdleRest ==
  /\ IdleConv
  /\ binary_mask = None /\ rle = None

InitPredict ==
  /\ pc = "loop"
  /\ counter = 0
  /\ f_out = <<[kind |-> "header"]>>          \* lines 136-138
  /\ shape = None /\ image_size = None /\ padding = None
  /\ scores = <<>> /\ labels = <<>> /\ top_indexes = <<>>
  /\ all_predictions = <<>> /\ sigmoid_mask = NoMask
  /\ IdleRest

\* The data loader yields the next image (line 141): the dataset applied
\* test_process_steps, i.e. Resize (24-40), to it and hands over the original
\* <<height, width>> as shape and the padding Resize returned.  When rounding
\* gives a side of 0, F.resize either raises ValueError ("height and width must
\* be > 0") or returns an image of that size, depending on the Pillow in use.
\* The values of the last image are dead from here on and are cleared.
NextImage(Sizes) ==
  /\ pc = "loop"
  /\ counter < MaxImages
  /\ \E size \in Sizes :
       LET isz == ResizedSize(size)
       IN  /\ shape' = <<size[2], size[1]>>
           /\ image_size' = isz
           /\ \/ /\ isz[1] >= 1 /\ isz[2] >= 1
                 /\ padding' = ResizePadding(isz)
                 /\ pc' = "image"
              \/ /\ isz[1] < 1 \/ isz[2] < 1
                 /\ \/ padding' = ResizePadding(isz) /\ pc' = "image"
                    \/ padding' = None /\ pc' = "failed"
  /\ counter' = counter + 1
  /\ scores' = <<>> /\ labels' = <<>> /\ top_indexes' = <<>>
  /\ all_predictions' = <<>> /\ sigmoid_mask' = NoMask
  /\ UNCHANGED <<f_out, convVars, rleVars>>

\* Lines 142-154: the model runs; image id, width and height are written (149).
RunModel(ScoreSeqs, LabelValues) ==
  /\ pc = "image"
  /\ \E sc \in ScoreSeqs : \E lb \in [1..Len(sc) -> LabelValues] :
       /\ scores' = sc
       /\ labels' = lb
  /\ f_out' = Append(f_out, [kind |-> "prefix", image |-> counter])
  /\ all_predictions' = <<>>
  /\ pc' = "sort"
  /\ UNCHANGED <<counter, shape, image_size, padding, top_indexes, sigmoid_mask,
                 convVars, rleVars>>

\* Lines 156-159: sorted scores, top 5.
SortScores ==
  /\ pc = "sort"
  /\ \E order \in argsort(Negated(scores)) :
       top_indexes' = TopIndexes(order, Len(scores))
  /\ pc' = "masks"
  /\ UNCHANGED <<counter, f_out, shape, image_size, padding, scores, labels,
                 all_predictions, sigmoid_mask, convVars, rleVars>>

\* One pass of the loop of lines 161-184 for i = Head(top_indexes).  cv2.resize
\* raises on an empty source (173), the assertion of 174 and the lookup of 181
\* may raise too; each ends the script.
MaskStep ==
  /\ pc = "masks"
  /\ top_indexes # <<>>
  /\ LET i       == Head(top_indexes)
         crop    == CropShape(padding)
         resized == Cv2ResizeShape(<<shape[2], shape[1]>>)
     IN  IF ~PassesThreshold(scores[i])
           THEN /\ pc' = pc
                /\ UNCHANGED <<all_predictions, sigmoid_mask>>
           ELSE IF crop[1] < 1 \/ crop[2] < 1
             THEN /\ pc' = "failed"
                  /\ sigmoid_mask' = [upsampled |-> <<TargetSize, TargetSize>>,
                                      cropped |-> crop, resized |-> None]
                  /\ UNCHANGED all_predictions
             ELSE /\ sigmoid_mask' = [upsampled |-> <<TargetSize, TargetSize>>,
                                      cropped |-> crop, resized |-> resized]
                  /\ IF resized # shape \/ labels[i] \notin DOMAIN get_categories
                       THEN /\ pc' = "failed"
                            /\ UNCHANGED all_predictions
                       ELSE /\ pc' = pc
                            /\ all_predictions' =
                                 Append(all_predictions,
                                        [pred_class |-> get_categories[labels[i]],
                                         score |-> scores[i],
                                         formatted_mask |-> i])
  /\ top_indexes' = Tail(top_indexes)
  /\ UNCHANGED <<counter, f_out, shape, image_size, padding, scores, labels,
                 convVars, rleVars>>

\* Lines 185-186: the prediction string, the join of all_predictions, and the
\* newline are written.
WritePredictionString ==
  /\ pc = "masks"
  /\ top_indexes = <<>>
  /\ f_out' = Append(f_out, [kind |-> "predictions", image |-> counter])
  /\ pc' = "loop"
  /\ UNCHANGED <<counter, shape, image_size, padding, scores, labels, top_indexes,
                 all_predictions, sigmoid_mask, convVars, rleVars>>

\* The data loader is exhausted: f_out.close() (188).
CloseOutput ==
  /\ pc = "loop"
  /\ pc' = "done"
  /\ UNCHANGED <<counter, predVars, convVars, rleVars>>

(***************************************************************************)
(* SpecResize: images of many sizes, one confident instance each.          *)
(***************************************************************************)
Sides ==
  (1..MaxDim) \cup { TargetSize * k + d : k \in 1..MaxScale, d \in {0 - 1, 0, 1} }

ResizeSizes == Sides \X Sides            \* <<width, height>>

NextImageResize == NextImage(ResizeSizes)
RunModelResize  == RunModel({<<90>>}, {1})

NextResize ==
  \/ NextImageResize \/ RunModelResize \/ SortScores \/ MaskStep
  \/ WritePredictionString \/ CloseOutput

SpecResize == InitPredict /\ [][NextResize]_vars

(***************************************************************************)
(* SpecTopK: one image size, every score vector up to MaxInstances.        *)
(***************************************************************************)
ScoreValues == {70, 71, 90}

ExampleScores == <<90, 95, 30, 80, 71, 60>>

TopKScoreSeqs ==
  UNION { [1..n -> ScoreValues] : n \in 0..MaxInstances } \cup {ExampleScores}

NextImageTopK == NextImage({<<4, 3>>})
RunModelTopK  == RunModel(TopKScoreSeqs, {1})

NextTopK ==
  \/ NextImageTopK \/ RunModelTopK \/ SortScores \/ MaskStep
  \/ WritePredictionString \/ CloseOutput

SpecTopK == InitPredict /\ [][NextTopK]_vars

(***************************************************************************)
(* SpecPredict: a few sizes, one of them of an extreme aspect ratio, and    *)
(* labels the category file does not hold.                                 *)
(***************************************************************************)
PredictSizes == {<<4, 3>>, <<3, 3>>, <<3 * TargetSize, 1>>}

PredictScoreSeqs == UNION { [1..n -> {60, 90}] : n \in 0..MaxDetections }

PredictLabels == 1..(Len(Categories) + 1)

NextImagePredict == NextImage(PredictSizes)
RunModelPredict  == RunModel(PredictScoreSeqs, PredictLabels)

NextPredict ==
  \/ NextImagePredict \/ RunModelPredict \/ SortScores \/ MaskStep
  \/ WritePredictionString \/ CloseOutput

SpecPredict == InitPredict /\ [][NextPredict]_vars

(***************************************************************************)
(* Claims about make_predictions.py                                        *)
(***************************************************************************)
\* C5: the padding Resize returns has left = floor((1024 - resized_width) / 2),
\* top = floor((1024 - resized_height) / 2), left + right = 1024 - resized_width,
\* top + bottom = 1024 - resized_height, no negative pad, and the longer original
\* side was resized to exactly 1024.
PadSymmetry ==
  padding # None =>
    LET rw == image_size[1]
        rh == image_size[2]
    IN  /\ 2 * padding[1] <= 1024 - rw /\ 1024 - rw <= 2 * padding[1] + 1
        /\ 2 * padding[2] <= 1024 - rh /\ 1024 - rh <= 2 * padding[2] + 1
        /\ padding[1] + padding[3] = 1024 - rw
        /\ padding[2] + padding[4] = 1024 - rh
        /\ \A k \in 1..4 : padding[k] >= 0
        /\ (shape[2] >= shape[1] => rw = 1024)
        /\ (shape[1] >= shape[2] => rh = 1024)

\* Resize returned a padding for an image whose free space is odd: the right pad
\* is one more than the left pad.
PadSymmetryWitness ==
  /\ pc = "image"
  /\ shape[2] < shape[1]
  /\ padding[3] = padding[1] + 1
  /\ padding[2] = 0 /\ padding[4] = 0

\* C6: for every image of positive width and height the inverse transform of a
\* selected mask completes: the cropped region is resized_height x resized_width,
\* both at least 1, the result has shape (original_height, original_width), and
\* no step of it fails.
InverseLetterboxCompletes ==
  /\ pc # "failed"
  /\ sigmoid_mask.cropped # None =>
       /\ sigmoid_mask.cropped = <<image_size[2], image_size[1]>>
       /\ sigmoid_mask.cropped[1] >= 1 /\ sigmoid_mask.cropped[2] >= 1
       /\ sigmoid_mask.resized = shape

\* C10: wherever the run stops, every "<id>,<width>,<height>," in the file is
\* followed by the prediction string and newline of the same image.
NoPartialRows ==
  pc \in {"done", "failed"} =>
    \A i \in 1..Len(f_out) :
      f_out[i].kind = "prefix" =>
        /\ i < Len(f_out)
        /\ f_out[i + 1].kind = "predictions"
        /\ f_out[i + 1].image = f_out[i].image

\* The instances whose triples are in all_predictions, in order (1-based indices).
Emitted == [k \in 1..Len(all_predictions) |-> all_predictions[k].formatted_mask]

\* The prediction string of the current image has just been written.
Written == pc = "loop" /\ counter > 0

\* All instances by descending score, ties by ascending index.
RECURSIVE StableDescending(_, _)
StableDescending(sc, S) ==
  IF S = {} THEN <<>>
  ELSE LET i == CHOOSE j \in S :
                  \A k \in S : sc[j] > sc[k] \/ (sc[j] = sc[k] /\ j <= k)
       IN  <<i>> \o StableDescending(sc, S \ {i})

StableSelection(sc) ==
  SelectSeq(SubSeq(StableDescending(sc, 1..Len(sc)), 1, Min(5, Len(sc))),
            LAMBDA i : sc[i] > 70)

\* C4 as claimed: the detections written are those among the first 5 by descending
\* score, ties by ascending original index, with a score above 0.7, in that order.
TopKStableTies ==
  Written => Emitted = StableSelection(scores)

\* C4 as the code has it: the detections written are those among the first 5 of
\* an ordering of all instances by descending score, with a score above 0.7, in
\* that order; which of several instances of equal score comes first is not
\* determined.  Without equal scores it is the selection of the claim.
TopKAnyTieOrder ==
  Written =>
    LET e == Emitted
        n == Len(scores)
        E == { e[k] : k \in 1..Len(e) }
    IN  /\ E \subseteq 1..n
        /\ Cardinality(E) = Len(e)
        /\ Len(e) <= 5
        /\ \A k \in 1..Len(e) : scores[e[k]] > 70
        /\ \A k \in 1..(Len(e) - 1) : scores[e[k]] >= scores[e[k + 1]]
        /\ \A j \in (1..n) \ E :
             scores[j] > 70 =>
               Len(e) = 5 /\ \A k \in 1..Len(e) : scores[j] <= scores[e[k]]
        /\ (\A i, j \in 1..n : scores[i] = scores[j] => i = j)
             => e = StableSelection(scores)

\* Six instances of equal score 0.9: five were written, the last five in reverse.
TopKAnyTieOrderWitness ==
  /\ Written
  /\ scores = <<90, 90, 90, 90, 90, 90>>
  /\ Emitted = <<6, 5, 4, 3, 2>>

====
